---- MODULE Spec2Model ----
(***************************************************************************)
(* The image-upload Lambda of SC-Market/sc-market-image-lambda as a state  *)
(* machine of one request: validation, scan-compatibility conversion, the  *)
(* Rekognition moderation scan over a transient S3 object, the WebP        *)
(* conversion and the Backblaze upload.                                    *)
(*                                                                         *)
(* Strings the code inspects piecewise (content types, file names) are     *)
(* sequences of tokens; every token is a fixed piece of text, so the       *)
(* string operations of the code (toLowerCase, replace, includes) are      *)
(* computed token by token.  Opaque strings are TLA+ strings.              *)
(***************************************************************************)
EXTENDS Integers, Sequences, FiniteSets, TLC

VARIABLES
    client,      \* which RekognitionClient source is deployed: "hybrid" | "legacy"
    req,         \* the request body (UploadRequest), its payload by its byte length
    pc,          \* position of the handler
    contentType, \* handler local: body.contentType || 'image/jpeg'
    rekImage,    \* result of ImageProcessor.convertToRekognitionCompatible
    scan,        \* locals of RekognitionClient.scanImageForModeration
    verdict,     \* ContentModerationResult returned by the client
    webpImage,   \* result of ImageProcessor.convertToWebPIfNeeded
    finalFilename, \* handler local
    calls,       \* network calls issued so far, in order
    decodes,     \* buffers handed to sharp by instantiateSharpImage, in order
    encodes,     \* encodings asked of sharp (.png(...) / .webp(...)), in order
    raised,      \* ImageProcessorErrors thrown so far, in order
    response,    \* the APIGatewayProxyResult, once pc = "done"
    sharpAnswer, \* ProcessorSpec: what sharp answers to the ImageProcessor call made
    invocations, \* ConcurrentSpec: the handler invocations running side by side
    s3Bucket,    \* ConcurrentSpec: the objects of the transient S3 bucket
    b2Bucket     \* ConcurrentSpec: the objects of the Backblaze bucket

vars == <<client, req, pc, contentType, rekImage, scan, verdict, webpImage,
          finalFilename, calls, decodes, encodes, raised, response,
          sharpAnswer, invocations, s3Bucket, b2Bucket>>

\* what only ProcessorSpec and ConcurrentSpec move
harness == <<sharpAnswer, invocations, s3Bucket, b2Bucket>>

----------------------------------------------------------------------------
(* Bounds of the model *)

\* longest declared content type, in tokens
MaxCTLen == 2
\* most moderation labels the provider returns in one answer
MaxLabels == 2

----------------------------------------------------------------------------
(* Strings as token sequences *)

CTTokens == {"image/", "png", "PNG", "jpeg", "jpg", "webp", "gif"}

Str(t) == <<t>>

RECURSIVE SeqsUpTo(_, _)
SeqsUpTo(S, n) ==
    IF n = 0 THEN {<<>>}
    ELSE LET shorter == SeqsUpTo(S, n - 1)
         IN  shorter \cup {Append(s, x) : s \in {t \in shorter : Len(t) = n - 1}, x \in S}

\* String.prototype.toLowerCase on one token
LowerToken(t) == IF t = "PNG" THEN "png" ELSE t

toLowerCase(s) == [i \in DOMAIN s |-> LowerToken(s[i])]

\* index of the first occurrence of token t in s, 0 when absent
RECURSIVE IndexFrom(_, _, _)
IndexFrom(s, t, i) ==
    IF i > Len(s) THEN 0
    ELSE IF s[i] = t THEN i
    ELSE IndexFrom(s, t, i + 1)

indexOf(s, t) == IndexFrom(s, t, 1)

includes(s, t) == indexOf(s, t) # 0

\* String.prototype.replace(t, ''): only the first occurrence is removed
replaceFirst(s, t) ==
    LET i == indexOf(s, t)
    IN  IF i = 0 THEN s
        ELSE SubSeq(s, 1, i - 1) \o SubSeq(s, i + 1, Len(s))

----------------------------------------------------------------------------
(* ImageProcessor: format classification *)

SUPPORTED_FORMATS == {Str("webp"), Str("jpg"), Str("jpeg"), Str("png")}

\* mutant: webp is on the list of the formats Rekognition reads
REKOGNITION_COMPATIBLE_FORMATS_WithWebP == {Str("jpeg"), Str("png"), Str("webp")}

REKOGNITION_COMPATIBLE_FORMATS == {Str("jpeg"), Str("png")}

MAX_IMAGE_DIMENSION == 8192

extractFormatFromContentType(ct) == replaceFirst(toLowerCase(ct), "image/")

isSupportedFormat(ct) == extractFormatFromContentType(ct) \in SUPPORTED_FORMATS

getMimeType(format) ==
    CASE format = Str("webp") -> <<"image/", "webp">>
      [] format = Str("jpg")  -> <<"image/", "jpeg">>
      [] format = Str("jpeg") -> <<"image/", "jpeg">>
      [] format = Str("png")  -> <<"image/", "png">>
      [] OTHER                -> <<"image/", "jpeg">>

----------------------------------------------------------------------------
(* Buffers.  A buffer is known by where its bytes come from: the decoded   *)
(* request payload, or an encoding sharp produced from it.                 *)

RequestBuffer == [src |-> "request", conv |-> "none"]

NoBuffer == [src |-> "none", conv |-> "none"]

\* the output of sharp(...).png().toBuffer() / .webp().toBuffer()
EncodedBuffer(buf, fmt) == [buf EXCEPT !.conv = fmt]

----------------------------------------------------------------------------
(* Errors.  A message is the set of the substrings the code tests for that *)
(* occur in it.                                                            *)

\* most signal substrings in one library message
MaxSignals == 2

LONG_UNSUPPORTED == "Input buffer contains unsupported image format"

Signals == {"memory", "buffer", "pixel", "dimension", "unsupported image format",
            LONG_UNSUPPORTED, "timeout", "timed out"}

\* a text containing the long phrase contains its parts
CloseMessage(m) ==
    IF LONG_UNSUPPORTED \in m THEN m \cup {"buffer", "unsupported image format"} ELSE m

LibMessages == {CloseMessage(m) : m \in {x \in SUBSET Signals : Cardinality(x) <= MaxSignals}}

\* an Error thrown by sharp / libvips
LibError(m) == [isError |-> TRUE, isIPE |-> FALSE, statusCode |-> 0,
                errorType |-> "Error", message |-> m]

\* a thrown value that is no Error instance
NonError == [isError |-> FALSE, isIPE |-> FALSE, statusCode |-> 0,
             errorType |-> "NonError", message |-> {}]

\* mutant: every ImageProcessorError is constructed with status 500
ImageProcessorError_Status500(statusCode, errorType, message) ==
    [isError |-> TRUE, isIPE |-> TRUE, statusCode |-> 500,
     errorType |-> errorType, message |-> message]

ImageProcessorError(statusCode, errorType, message) ==
    [isError |-> TRUE, isIPE |-> TRUE, statusCode |-> statusCode,
     errorType |-> errorType, message |-> message]

Thrown == {LibError(m) : m \in LibMessages} \cup {NonError}

\* the width and height sharp(buffer).metadata() reports (<<0, 0>>: none): an
\* image at the limit in both axes, and one past it in either axis whose pixel
\* count is far below MAX_INPUT_PIXELS
Dims ==
    {<<0, 0>>, <<MAX_IMAGE_DIMENSION, MAX_IMAGE_DIMENSION>>,
     <<MAX_IMAGE_DIMENSION + 1, 100>>, <<100, MAX_IMAGE_DIMENSION + 1>>}

\* what sharp(buffer).metadata() can answer: dimensions or a throw
MetadataOutcomes ==
    {[ok |-> FALSE, width |-> 0, height |-> 0, error |-> e] : e \in Thrown}
    \cup {[ok |-> TRUE, width |-> d[1], height |-> d[2], error |-> NonError] : d \in Dims}

\* what .toBuffer() can answer
EncodeOutcomes ==
    {[ok |-> TRUE, error |-> NonError]} \cup {[ok |-> FALSE, error |-> e] : e \in Thrown}

Ok(value) == [ok |-> TRUE, value |-> value, error |-> NonError, raised |-> <<>>]

Fail(error, raisedBefore) ==
    [ok |-> FALSE, value |-> NoBuffer, error |-> error,
     raised |-> Append(raisedBefore, error)]

----------------------------------------------------------------------------
(* ImageProcessor.instantiateSharpImage *)

\* mutant: the message of the dimension check speaks of the size of the image
DimensionError_SizeWording ==
    ImageProcessorError(413, "ImageTooLarge", {})

\* the error of lines 65-69; its message holds "dimensions" and no other signal
DimensionError ==
    ImageProcessorError(413, "ImageTooLarge", {"dimension"})

\* mutant: the image is refused only when both axes exceed the limit
DimensionsExceed_BothAxes(meta) ==
    /\ meta.width # 0 /\ meta.height # 0
    /\ (meta.width > MAX_IMAGE_DIMENSION /\ meta.height > MAX_IMAGE_DIMENSION)

\* the check of lines 55-71 on the reported metadata
DimensionsExceed(meta) ==
    /\ meta.width # 0 /\ meta.height # 0
    /\ (meta.width > MAX_IMAGE_DIMENSION \/ meta.height > MAX_IMAGE_DIMENSION)

\* mutant: the pixel and dimension signals are looked for before the memory ones
ClassifyInstantiationFailure_PixelFirst(error) ==
    IF error.isError
          /\ ("pixel" \in error.message \/ "dimension" \in error.message)
    THEN ImageProcessorError(413, "ImageTooLarge", {"dimension"})
    ELSE IF error.isError
          /\ ("memory" \in error.message
              \/ ("buffer" \in error.message
                    /\ "unsupported image format" \notin error.message
                    /\ LONG_UNSUPPORTED \notin error.message))
    THEN ImageProcessorError(413, "MemoryLimitExceeded", {})
    ELSE IF error.isError
              /\ ("unsupported image format" \in error.message
                  \/ LONG_UNSUPPORTED \in error.message)
    THEN ImageProcessorError(400, "InvalidImageFormat", {})
    ELSE ImageProcessorError(400, "InstantiationError", {})

\* the catch block: classification of whatever the try block threw
ClassifyInstantiationFailure(error) ==
    IF error.isError
          /\ ("memory" \in error.message
              \/ ("buffer" \in error.message
                    /\ "unsupported image format" \notin error.message
                    /\ LONG_UNSUPPORTED \notin error.message))
    THEN ImageProcessorError(413, "MemoryLimitExceeded", {})
    ELSE IF error.isError
              /\ ("pixel" \in error.message \/ "dimension" \in error.message)
    THEN ImageProcessorError(413, "ImageTooLarge", {"dimension"})
    ELSE IF error.isError
              /\ ("unsupported image format" \in error.message
                  \/ LONG_UNSUPPORTED \in error.message)
    THEN ImageProcessorError(400, "InvalidImageFormat", {})
    ELSE ImageProcessorError(400, "InstantiationError", {})

instantiateSharpImage(meta) ==
    IF ~meta.ok
    THEN Fail(ClassifyInstantiationFailure(meta.error), <<>>)
    ELSE IF DimensionsExceed(meta)
    THEN Fail(ClassifyInstantiationFailure(DimensionError), <<DimensionError>>)
    ELSE Ok(NoBuffer)

----------------------------------------------------------------------------
(* ImageProcessor conversions *)

convertToPNG(imageBuffer, meta, enc) ==
    LET inst == instantiateSharpImage(meta)
        pngError == ImageProcessorError(500, "PNGConversionError", {})
    IN  IF ~inst.ok THEN Fail(pngError, inst.raised)
        ELSE IF ~enc.ok THEN Fail(pngError, <<>>)
        ELSE Ok(EncodedBuffer(imageBuffer, "png"))

\* mutant: webp counts as a format Rekognition reads
IsRekognitionCompatible_WithWebP(format) ==
    format \in REKOGNITION_COMPATIBLE_FORMATS \cup {Str("webp")}

\* does this format go to Rekognition as it is?
IsRekognitionCompatible(format) == format \in REKOGNITION_COMPATIBLE_FORMATS

convertToRekognitionCompatible(imageBuffer, ct, meta, enc) ==
    LET originalFormat == extractFormatFromContentType(ct)
        png == convertToPNG(imageBuffer, meta, enc)
    IN  IF IsRekognitionCompatible(originalFormat)
        THEN [ok |-> TRUE, buffer |-> imageBuffer, format |-> originalFormat,
              converted |-> FALSE, decoded |-> FALSE, encoded |-> FALSE,
              error |-> NonError, raised |-> <<>>]
        ELSE IF png.ok
        THEN [ok |-> TRUE, buffer |-> png.value, format |-> Str("png"),
              converted |-> TRUE, decoded |-> TRUE, encoded |-> TRUE,
              error |-> NonError, raised |-> <<>>]
        ELSE LET e == ImageProcessorError(500, "RekognitionCompatibilityError", {})
             IN  [ok |-> FALSE, buffer |-> NoBuffer, format |-> <<>>,
                  converted |-> FALSE, decoded |-> TRUE,
                  encoded |-> instantiateSharpImage(meta).ok, error |-> e,
                  raised |-> Append(png.raised, e)]

\* the catch blocks of convertToWebP and convertToWebPIfNeeded
ClassifyWebPFailure(error) ==
    IF error.isIPE THEN error
    ELSE IF error.isError /\ ("memory" \in error.message \/ "buffer" \in error.message)
    THEN ImageProcessorError(413, "MemoryLimitExceeded", {})
    ELSE IF error.isError /\ ("timeout" \in error.message \/ "timed out" \in error.message)
    THEN ImageProcessorError(408, "ProcessingTimeout", {})
    ELSE ImageProcessorError(500, "WebPConversionError", {})

\* the options object of sharpInstance.png(...)
PNGOptions == [compressionLevel |-> 6, adaptiveFiltering |-> TRUE]

\* the quality given to sharpInstance.webp(...)
WebPQuality(imageBuffer) == 80

\* the options object of sharpInstance.webp(...): { quality: 80 }
WebPOptions(imageBuffer) == [quality |-> WebPQuality(imageBuffer)]

\* one encoding asked of a sharp instance
Encode(format, options) == [format |-> format, options |-> options]

\* mutant: a webp input is decoded and encoded again like every other format
IsStorageFormat_Never(format) == FALSE

\* originalFormat === 'webp'
IsStorageFormat(format) == format = Str("webp")

convertToWebP(imageBuffer, meta, enc) ==
    LET inst == instantiateSharpImage(meta)
    IN  IF ~inst.ok
        THEN [inst EXCEPT !.error = ClassifyWebPFailure(inst.error)]
        ELSE IF ~enc.ok THEN Fail(ClassifyWebPFailure(enc.error), <<>>)
        ELSE Ok(EncodedBuffer(imageBuffer, "webp"))

convertToWebPIfNeeded(imageBuffer, ct, meta, enc) ==
    LET originalFormat == extractFormatFromContentType(ct)
        webp == convertToWebP(imageBuffer, meta, enc)
    IN  IF IsStorageFormat(originalFormat)
        THEN [ok |-> TRUE, buffer |-> imageBuffer, format |-> Str("webp"),
              converted |-> FALSE, decoded |-> FALSE, encoded |-> FALSE,
              error |-> NonError, raised |-> <<>>]
        ELSE IF webp.ok
        THEN [ok |-> TRUE, buffer |-> webp.value, format |-> Str("webp"),
              converted |-> TRUE, decoded |-> TRUE, encoded |-> TRUE,
              error |-> NonError, raised |-> <<>>]
        ELSE [ok |-> FALSE, buffer |-> NoBuffer, format |-> <<>>,
              converted |-> FALSE, decoded |-> TRUE,
              encoded |-> instantiateSharpImage(meta).ok,
              error |-> ClassifyWebPFailure(webp.error), raised |-> webp.raised]

EncodeOk == [ok |-> TRUE, error |-> NonError]

\* the outcomes of one decode-and-encode: every answer of metadata() followed by
\* a successful encode, and every failure of the encode of an image at the limit
ConversionOutcomes ==
    {<<meta, EncodeOk>> : meta \in MetadataOutcomes}
    \cup {<<[ok |-> TRUE, width |-> MAX_IMAGE_DIMENSION, height |-> MAX_IMAGE_DIMENSION,
             error |-> NonError], enc>> : enc \in EncodeOutcomes}

----------------------------------------------------------------------------
(* RekognitionClient: interpretation of the provider's answer *)

\* a label without Confidence carries NoConfidence, one without Name carries ""
NoConfidence == -1

REJECTION_THRESHOLD == 70

\* the moderation labels the provider is taken to answer with
Labels ==
    {[Name |-> "Explicit Nudity", Confidence |-> 69],
     [Name |-> "Explicit Nudity", Confidence |-> REJECTION_THRESHOLD],
     [Name |-> "Explicit Nudity", Confidence |-> NoConfidence],
     [Name |-> "Violence", Confidence |-> REJECTION_THRESHOLD],
     [Name |-> "Weapons", Confidence |-> 91],
     [Name |-> "", Confidence |-> REJECTION_THRESHOLD]}

LabelLists == SeqsUpTo(Labels, MaxLabels)

\* mutant: weapons are on the list of the hybrid client
blockedContentLabels_WithWeapons ==
    {"Explicit Nudity", "Visually Disturbing", "Hate Symbols", "Gambling", "Drugs",
     "Tobacco", "Alcohol", "Rude Gestures", "Adult Content", "Weapons"}

\* part_001: blockedContentLabels
blockedContentLabels ==
    {"Explicit Nudity", "Visually Disturbing", "Hate Symbols", "Gambling", "Drugs",
     "Tobacco", "Alcohol", "Rude Gestures", "Adult Content"}

\* src/clients/rekognition.ts: explicitContentLabels
explicitContentLabels ==
    {"Explicit Nudity", "Violence", "Visually Disturbing", "Hate Symbols", "Gambling",
     "Drugs", "Tobacco", "Alcohol", "Rude Gestures", "Adult Content"}

RejectedLabelNames(c) ==
    IF c = "hybrid" THEN blockedContentLabels ELSE explicitContentLabels

\* label.Confidence || 0
ConfidenceOf(label) ==
    IF label.Confidence = NoConfidence THEN 0 ELSE label.Confidence

Max(a, b) == IF a >= b THEN a ELSE b

\* mutant: the confidence of the first label instead of the largest
maxConfidence_First(labels) ==
    IF labels = <<>> THEN 0 ELSE ConfidenceOf(Head(labels))

\* moderationLabels.reduce((max, label) => Math.max(max, label.Confidence || 0), 0)
RECURSIVE maxConfidence(_)
maxConfidence(labels) ==
    IF labels = <<>> THEN 0
    ELSE Max(ConfidenceOf(Head(labels)), maxConfidence(Tail(labels)))

\* mutant: the threshold is compared with > instead of >=
LabelRejects_Above(c, label) ==
    /\ label.Name \in RejectedLabelNames(c)
    /\ ConfidenceOf(label) > REJECTION_THRESHOLD

LabelRejects(c, label) ==
    /\ label.Name \in RejectedLabelNames(c)
    /\ ConfidenceOf(label) >= REJECTION_THRESHOLD

\* moderationLabels.some(...)
hasExplicitContent(c, labels) ==
    \E i \in DOMAIN labels : LabelRejects(c, labels[i])

\* moderationLabels.map(label => label.Name || '').filter(Boolean)
RECURSIVE labelNames(_)
labelNames(labels) ==
    IF labels = <<>> THEN <<>>
    ELSE IF Head(labels).Name = "" THEN labelNames(Tail(labels))
    ELSE <<Head(labels).Name>> \o labelNames(Tail(labels))

NoVerdict ==
    [returned |-> FALSE, passed |-> FALSE, moderationLabels |-> <<>>,
     confidence |-> 0, hasError |-> FALSE, error |-> ""]

\* the result returned at the end of the try block
ScanResult(c, labels) ==
    [returned |-> TRUE, passed |-> ~hasExplicitContent(c, labels),
     moderationLabels |-> labelNames(labels), confidence |-> maxConfidence(labels),
     hasError |-> FALSE, error |-> ""]

\* mutant: a scan that failed is reported as passed (fail open)
ScanErrorResult_Passing(message) ==
    [returned |-> TRUE, passed |-> TRUE, moderationLabels |-> <<>>,
     confidence |-> 0, hasError |-> TRUE, error |-> message]

\* the result returned at the end of the catch block
ScanErrorResult(message) ==
    [returned |-> TRUE, passed |-> FALSE, moderationLabels |-> <<>>,
     confidence |-> 0, hasError |-> TRUE, error |-> message]

\* error.message of the failures the AWS SDK raises
ProviderErrors == {"AccessDenied", "ThrottlingException"}

\* the extension of tempKey
TempKeyExtension(rekognitionContentType) ==
    IF rekognitionContentType = <<"image/", "jpeg">> THEN "jpg" ELSE "png"

TempKey(rekognitionContentType) ==
    <<"temp-moderation/", "uuid-now", TempKeyExtension(rekognitionContentType)>>

\* MinConfidence of detectModerationLabels
ModerationMinConfidence(c) == IF c = "hybrid" THEN 70 ELSE 50

\* the provider answers with labels at or above the MinConfidence it was given
ProviderLabelLists(c) ==
    {l \in LabelLists :
        \A i \in DOMAIN l :
            l[i].Confidence = NoConfidence \/ l[i].Confidence >= ModerationMinConfidence(c)}

----------------------------------------------------------------------------
(* The request *)

maxSizeBytes == 2 * 1024 * 1024

\* byte lengths of the decoded payload: 1 MiB, 2 MiB, 2 MiB + 1
Sizes == {1024 * 1024, maxSizeBytes, maxSizeBytes + 1}

\* file names: a stem, then possibly an extension
FileNames == {<<"photo", ".jpg">>, <<"photo">>}

ExtensionTokens == {".jpg", ".png", ".webp"}

\* filename.replace(/\.[^/.]+$/, '.webp')
replaceExtension(filename) ==
    IF Len(filename) > 0 /\ filename[Len(filename)] \in ExtensionTokens
    THEN SubSeq(filename, 1, Len(filename) - 1) \o <<".webp">>
    ELSE filename

ContentTypes == SeqsUpTo(CTTokens, MaxCTLen)

\* the encodings the bytes of a payload can have
Encodings == {"jpeg", "png", "webp"}

\* the encoding a content type stands for: a missing one is taken as image/jpeg,
\* "other" is whatever the handler does not support
DeclaredEncoding(ct) ==
    LET format == extractFormatFromContentType(ct)
    IN  CASE ct = <<>> \/ format \in {Str("jpg"), Str("jpeg")} -> "jpeg"
          [] format = Str("png") -> "png"
          [] format = Str("webp") -> "webp"
          [] OTHER -> "other"

\* an absent field is the empty string: both are falsy to the handler; bytes is
\* the encoding the payload really has ("none": no payload)
RequestsOfAnyEncoding ==
    {r \in [hasImageData : BOOLEAN, size : Sizes \cup {0},
            filename : FileNames \cup {<<>>}, contentType : ContentTypes,
            bytes : Encodings \cup {"other", "none"}] :
        /\ r.hasImageData <=> r.size \in Sizes
        /\ r.hasImageData <=> r.bytes # "none"}

\* the requests whose payload is what the content type says
Requests ==
    {r \in RequestsOfAnyEncoding :
        r.hasImageData => r.bytes = DeclaredEncoding(r.contentType)}

\* mutant: a request without content type is taken as image/jpg
DEFAULT_CONTENT_TYPE_Jpg == <<"image/", "jpg">>

DEFAULT_CONTENT_TYPE == <<"image/", "jpeg">>

NoImage == [buffer |-> NoBuffer, format |-> <<>>, converted |-> FALSE]

NoScan == [key |-> <<>>, buffer |-> NoBuffer, contentType |-> <<>>,
           labels |-> <<>>, error |-> ""]

\* the body of the response; message is the fixed text of the message, without
\* the content type or the size the validation messages interpolate
NoResponse ==
    [statusCode |-> 0, success |-> FALSE, message |-> "", error |-> "",
     moderationLabels |-> <<>>, confidence |-> 0, filename |-> <<>>,
     originalFormat |-> <<>>, finalFormat |-> <<>>, url |-> <<>>]

Failure(statusCode, error, message) ==
    [NoResponse EXCEPT !.statusCode = statusCode, !.error = error, !.message = message]

\* one awaited network call and how it ended: "ok" or the message of its failure
Call(service, op, key, body, ctype, result) ==
    [service |-> service, op |-> op, key |-> key, body |-> body, ctype |-> ctype,
     result |-> result]

\* no ImageProcessor call under test, no invocation side by side
HarnessIdle ==
    /\ sharpAnswer = <<>>
    /\ invocations = <<>>
    /\ s3Bucket = {}
    /\ b2Bucket = {}

Init ==
    /\ HarnessIdle
    /\ client \in {"hybrid", "legacy"}
    /\ req \in Requests
    /\ pc = "validate"
    /\ contentType = <<>>
    /\ rekImage = NoImage
    /\ scan = NoScan
    /\ verdict = NoVerdict
    /\ webpImage = NoImage
    /\ finalFilename = <<>>
    /\ calls = <<>>
    /\ decodes = <<>>
    /\ encodes = <<>>
    /\ raised = <<>>
    /\ response = NoResponse

----------------------------------------------------------------------------
(* handler: validation *)

\* body.contentType || 'image/jpeg'
DeclaredContentType(r) ==
    IF r.contentType = <<>> THEN DEFAULT_CONTENT_TYPE ELSE r.contentType

MissingFields(r) == ~r.hasImageData \/ r.filename = <<>>

\* mutant: the limit compared with is MAX_PROCESSING_SIZE, 5 MiB
TooLarge_ProcessingSize(size) == size > 5 * 1024 * 1024

\* mutant: the comparison is >= instead of >
TooLarge_Inclusive(size) == size >= maxSizeBytes

TooLarge(size) == size > maxSizeBytes

\* mutant: the size is checked before the content type
ValidationResponse_SizeFirst(r) ==
    IF MissingFields(r)
    THEN Failure(400, "VALIDATION_ERROR", "Missing required fields: imageData and filename")
    ELSE IF TooLarge(r.size)
    THEN Failure(400, "FILE_TOO_LARGE", "Image file size too large")
    ELSE IF ~isSupportedFormat(DeclaredContentType(r))
    THEN Failure(400, "UNSUPPORTED_FORMAT", "Unsupported image format")
    ELSE NoResponse

\* the response validation ends the request with, NoResponse when it passes
ValidationResponse(r) ==
    IF MissingFields(r)
    THEN Failure(400, "VALIDATION_ERROR", "Missing required fields: imageData and filename")
    ELSE IF ~isSupportedFormat(DeclaredContentType(r))
    THEN Failure(400, "UNSUPPORTED_FORMAT", "Unsupported image format")
    ELSE IF TooLarge(r.size)
    THEN Failure(400, "FILE_TOO_LARGE", "Image file size too large")
    ELSE NoResponse

Validate ==
    /\ pc = "validate"
    /\ LET rejected == ValidationResponse(req)
       IN  IF rejected # NoResponse
           THEN /\ response' = rejected
                /\ pc' = "done"
                /\ UNCHANGED contentType
           ELSE /\ contentType' = DeclaredContentType(req)
                /\ pc' = "convertRekognition"
                /\ UNCHANGED response
    /\ UNCHANGED harness
    /\ UNCHANGED <<client, req, rekImage, scan, verdict, webpImage, finalFilename,
                   calls, decodes, encodes, raised>>

\* one pass of a buffer through instantiateSharpImage: the dimensions sharp
\* reported, whether it returned and, if not, the error it threw
Decode(buffer, meta) ==
    LET inst == instantiateSharpImage(meta)
    IN  [buffer |-> buffer, width |-> meta.width, height |-> meta.height,
         ok |-> inst.ok,
         errorType |-> IF inst.ok THEN "" ELSE inst.error.errorType,
         statusCode |-> IF inst.ok THEN 0 ELSE inst.error.statusCode]

\* mutant: the catch block answers with success set
InternalError_Partial ==
    [Failure(500, "INTERNAL_ERROR", "Internal server error") EXCEPT !.success = TRUE]

\* the handler's catch block
InternalError == Failure(500, "INTERNAL_ERROR", "Internal server error")

----------------------------------------------------------------------------
(* scanImageForModeration (handler side): scan-compatibility conversion *)

\* mutant: when the conversion fails the scan goes on with the buffer as it came
ConvertRekognition_FallBack ==
    /\ pc = "convertRekognition"
    /\ \E o \in ConversionOutcomes :
         LET r == convertToRekognitionCompatible(RequestBuffer, contentType, o[1], o[2])
         IN  /\ decodes' = IF r.decoded THEN Append(decodes, Decode(RequestBuffer, o[1]))
                                        ELSE decodes
             /\ encodes' = IF r.encoded THEN Append(encodes, Encode("png", PNGOptions))
                                        ELSE encodes
             /\ raised' = raised \o r.raised
             /\ IF r.ok
                THEN /\ rekImage' = [buffer |-> r.buffer, format |-> r.format,
                                     converted |-> r.converted]
                     /\ pc' = "stage"
                     /\ UNCHANGED response
                ELSE /\ rekImage' = [buffer |-> RequestBuffer, format |-> Str("jpeg"),
                                     converted |-> FALSE]
                     /\ pc' = "stage"
                     /\ UNCHANGED response
    /\ UNCHANGED harness
    /\ UNCHANGED <<client, req, contentType, scan, verdict, webpImage, finalFilename,
                   calls>>

ConvertRekognition ==
    /\ pc = "convertRekognition"
    /\ \E o \in ConversionOutcomes :
         LET r == convertToRekognitionCompatible(RequestBuffer, contentType, o[1], o[2])
         IN  /\ decodes' = IF r.decoded THEN Append(decodes, Decode(RequestBuffer, o[1]))
                                        ELSE decodes
             /\ encodes' = IF r.encoded THEN Append(encodes, Encode("png", PNGOptions))
                                        ELSE encodes
             /\ raised' = raised \o r.raised
             /\ IF r.ok
                THEN /\ rekImage' = [buffer |-> r.buffer, format |-> r.format,
                                     converted |-> r.converted]
                     /\ pc' = "stage"
                     /\ UNCHANGED response
                ELSE /\ response' = InternalError
                     /\ pc' = "done"
                     /\ UNCHANGED rekImage
    /\ UNCHANGED harness
    /\ UNCHANGED <<client, req, contentType, scan, verdict, webpImage, finalFilename,
                   calls>>

----------------------------------------------------------------------------
(* handler: what follows the moderation step *)

\* mutant: the handler goes on to the upload whatever the verdict
ModerationBlocks_Never(v) == FALSE

\* if (!moderationResult.passed) return ...
ModerationBlocks(v) == ~v.passed

\* mutant: the message of the response is the error text of the verdict
ModerationFailure_Leaking(v) ==
    [Failure(400, "MODERATION_FAILED",
             IF v.hasError THEN v.error ELSE "Image failed moderation checks") EXCEPT
        !.moderationLabels = v.moderationLabels, !.confidence = v.confidence]

ModerationFailure(v) ==
    [Failure(400, "MODERATION_FAILED", "Image failed moderation checks") EXCEPT
        !.moderationLabels = v.moderationLabels, !.confidence = v.confidence]

\* the handler resumes with the verdict v of the client
AfterScan(v) ==
    /\ verdict' = v
    /\ IF ModerationBlocks(v)
       THEN /\ response' = ModerationFailure(v)
            /\ pc' = "done"
            /\ UNCHANGED finalFilename
       ELSE /\ finalFilename' = replaceExtension(req.filename)
            /\ pc' = "convertWebP"
            /\ UNCHANGED response

----------------------------------------------------------------------------
(* RekognitionClient.scanImageForModeration *)

\* src/clients/rekognition.ts converts by itself what is neither JPEG nor PNG
ClientConverts(c, ct) ==
    c = "legacy" /\ ct # <<"image/", "jpeg">> /\ ct # <<"image/", "png">>

ProviderOutcomes == {"ok"} \cup ProviderErrors

\* the client is entered and the buffer is staged under the transient key
Stage ==
    /\ pc = "stage"
    /\ LET given == getMimeType(rekImage.format)
           converts == ClientConverts(client, given)
       IN  \E enc \in IF converts THEN EncodeOutcomes ELSE {EncodeOk},
              out \in ProviderOutcomes :
             IF ~enc.ok
             THEN /\ response' = InternalError
                  /\ pc' = "done"
                  /\ UNCHANGED <<scan, calls>>
             ELSE LET ct == IF converts THEN <<"image/", "png">> ELSE given
                      buf == IF converts THEN EncodedBuffer(rekImage.buffer, "png")
                             ELSE rekImage.buffer
                  IN  /\ calls' = Append(calls, Call("s3", "putObject", TempKey(ct), buf,
                                                     ct, out))
                      /\ scan' = [NoScan EXCEPT !.key = TempKey(ct), !.buffer = buf,
                                                !.contentType = ct,
                                                !.error = IF out = "ok" THEN "" ELSE out]
                      /\ pc' = IF out = "ok" THEN "detectModeration" ELSE "cleanupAfterError"
                      /\ UNCHANGED response
    /\ UNCHANGED harness
    /\ UNCHANGED <<client, req, contentType, rekImage, verdict, webpImage, finalFilename,
                   decodes, encodes, raised>>

DetectCall(op, result) == Call("rekognition", op, scan.key, NoBuffer, <<>>, result)

DetectModeration ==
    /\ pc = "detectModeration"
    /\ \/ \E l \in ProviderLabelLists(client) :
            /\ calls' = Append(calls, DetectCall("detectModerationLabels", "ok"))
            /\ scan' = [scan EXCEPT !.labels = l]
            /\ pc' = IF client = "hybrid" THEN "detectLabels" ELSE "cleanup"
       \/ \E e \in ProviderErrors :
            /\ calls' = Append(calls, DetectCall("detectModerationLabels", e))
            /\ scan' = [scan EXCEPT !.error = e]
            /\ pc' = "cleanupAfterError"
    /\ UNCHANGED harness
    /\ UNCHANGED <<client, req, contentType, rekImage, verdict, webpImage, finalFilename,
                   decodes, encodes, raised, response>>

\* the object-label call of the hybrid client; its labels are only logged
DetectLabels ==
    /\ pc = "detectLabels"
    /\ \E out \in ProviderOutcomes :
         /\ calls' = Append(calls, DetectCall("detectLabels", out))
         /\ IF out = "ok"
            THEN /\ pc' = "cleanup"
                 /\ UNCHANGED scan
            ELSE /\ scan' = [scan EXCEPT !.error = out]
                 /\ pc' = "cleanupAfterError"
    /\ UNCHANGED harness
    /\ UNCHANGED <<client, req, contentType, rekImage, verdict, webpImage, finalFilename,
                   decodes, encodes, raised, response>>

DeleteCall(result) == Call("s3", "deleteObject", scan.key, NoBuffer, <<>>, result)

\* mutant: the result is returned with the delete left for later
Cleanup_Deferred ==
    /\ pc = "cleanup"
    /\ AfterScan(ScanResult(client, scan.labels))
    /\ UNCHANGED harness
    /\ UNCHANGED <<client, req, contentType, rekImage, scan, webpImage, calls, decodes,
                   encodes, raised>>

\* step 4 of the try block: the delete, then the result
Cleanup ==
    /\ pc = "cleanup"
    /\ \E out \in ProviderOutcomes :
         /\ calls' = Append(calls, DeleteCall(out))
         /\ IF out = "ok"
            THEN /\ AfterScan(ScanResult(client, scan.labels))
                 /\ UNCHANGED scan
            ELSE /\ scan' = [scan EXCEPT !.error = out]
                 /\ pc' = "cleanupAfterError"
                 /\ UNCHANGED <<verdict, response, finalFilename>>
    /\ UNCHANGED harness
    /\ UNCHANGED <<client, req, contentType, rekImage, webpImage, decodes, encodes,
                   raised>>

\* the catch block: the delete, whose own failure is only logged, then the error result
CleanupAfterError ==
    /\ pc = "cleanupAfterError"
    /\ \E out \in ProviderOutcomes : calls' = Append(calls, DeleteCall(out))
    /\ AfterScan(ScanErrorResult(scan.error))
    /\ UNCHANGED harness
    /\ UNCHANGED <<client, req, contentType, rekImage, scan, webpImage, decodes, encodes,
                   raised>>

----------------------------------------------------------------------------
(* uploadImageToBackblaze *)

\* mutant: the upload is handed the buffer that was scanned
StorageInput_ScanBuffer == rekImage.buffer

\* the buffer the handler hands to uploadImageToBackblaze: imageBuffer
StorageInput == RequestBuffer

ConvertWebP ==
    /\ pc = "convertWebP"
    /\ \E o \in ConversionOutcomes :
         LET r == convertToWebPIfNeeded(StorageInput, contentType, o[1], o[2])
         IN  /\ decodes' = IF r.decoded THEN Append(decodes, Decode(StorageInput, o[1]))
                                        ELSE decodes
             /\ encodes' = IF r.encoded
                            THEN Append(encodes, Encode("webp", WebPOptions(StorageInput)))
                            ELSE encodes
             /\ raised' = raised \o r.raised
             /\ IF r.ok
                THEN /\ webpImage' = [buffer |-> r.buffer, format |-> r.format,
                                      converted |-> r.converted]
                     /\ pc' = "putObject"
                     /\ UNCHANGED response
                ELSE /\ response' = InternalError
                     /\ pc' = "done"
                     /\ UNCHANGED webpImage
    /\ UNCHANGED harness
    /\ UNCHANGED <<client, req, contentType, rekImage, scan, verdict, finalFilename, calls>>

Success ==
    [NoResponse EXCEPT
        !.statusCode = 200, !.success = TRUE,
        !.message = "Image successfully processed and uploaded",
        !.filename = finalFilename,
        !.url = <<"CDN_URL/">> \o finalFilename,
        !.originalFormat = extractFormatFromContentType(contentType),
        !.finalFormat = Str("webp"), !.confidence = verdict.confidence]

\* mutant: the success response is returned whatever putObject answered
PutObject_Unawaited ==
    /\ pc = "putObject"
    /\ \E out \in ProviderOutcomes :
         calls' = Append(calls, Call("backblaze", "putObject", finalFilename,
                                     webpImage.buffer, getMimeType(webpImage.format),
                                     out))
    /\ response' = Success
    /\ pc' = "done"
    /\ UNCHANGED harness
    /\ UNCHANGED <<client, req, contentType, rekImage, scan, verdict, webpImage,
                   finalFilename, decodes, encodes, raised>>

\* mutant: a failed upload is issued again
PutObject_Retrying ==
    /\ pc = "putObject"
    /\ \E out \in ProviderOutcomes :
         /\ calls' = Append(calls, Call("backblaze", "putObject", finalFilename,
                                        webpImage.buffer, getMimeType(webpImage.format),
                                        out))
         /\ response' = IF out = "ok" THEN Success ELSE response
         /\ pc' = IF out = "ok" THEN "done" ELSE "putObject"
    /\ UNCHANGED harness
    /\ UNCHANGED <<client, req, contentType, rekImage, scan, verdict, webpImage,
                   finalFilename, decodes, encodes, raised>>

PutObject ==
    /\ pc = "putObject"
    /\ \E out \in ProviderOutcomes :
         /\ calls' = Append(calls, Call("backblaze", "putObject", finalFilename,
                                        webpImage.buffer, getMimeType(webpImage.format),
                                        out))
         /\ response' = IF out = "ok" THEN Success ELSE InternalError
    /\ pc' = "done"
    /\ UNCHANGED harness
    /\ UNCHANGED <<client, req, contentType, rekImage, scan, verdict, webpImage,
                   finalFilename, decodes, encodes, raised>>

----------------------------------------------------------------------------

Next ==
    \/ Validate
    \/ ConvertRekognition
    \/ Stage
    \/ DetectModeration
    \/ DetectLabels
    \/ Cleanup
    \/ CleanupAfterError
    \/ ConvertWebP
    \/ PutObject

Spec == Init /\ [][Next]_vars

----------------------------------------------------------------------------
(* EncodingSpec: the handler on requests whose payload need not be what the *)
(* content type says, for one size and one file name.                       *)

EncodingInit ==
    /\ HarnessIdle
    /\ client \in {"hybrid", "legacy"}
    /\ req \in {r \in RequestsOfAnyEncoding :
                    /\ r.size = maxSizeBytes /\ r.filename = <<"photo", ".jpg">>
                    /\ r.bytes \in Encodings}
    /\ pc = "validate"
    /\ contentType = <<>>
    /\ rekImage = NoImage
    /\ scan = NoScan
    /\ verdict = NoVerdict
    /\ webpImage = NoImage
    /\ finalFilename = <<>>
    /\ calls = <<>>
    /\ decodes = <<>>
    /\ encodes = <<>>
    /\ raised = <<>>
    /\ response = NoResponse

EncodingSpec == EncodingInit /\ [][Next]_vars

----------------------------------------------------------------------------
(* ProcessorSpec: the two public conversions of the ImageProcessor called on *)
(* their own, on one buffer, with the answers of sharp fixed beforehand.     *)

\* the request of a handler that is not running
IdleRequest ==
    [hasImageData |-> FALSE, size |-> 0, filename |-> <<>>, contentType |-> <<>>,
     bytes |-> "none"]

\* the handler has done nothing and stands at the given position
HandlerIdle(position) ==
    /\ client = "hybrid" /\ req = IdleRequest /\ pc = position
    /\ rekImage = NoImage /\ scan = NoScan /\ verdict = NoVerdict
    /\ webpImage = NoImage /\ finalFilename = <<>> /\ calls = <<>>
    /\ decodes = <<>> /\ encodes = <<>> /\ raised = <<>> /\ response = NoResponse

\* the content types the conversions are called with
ProcessorContentTypes ==
    {<<"image/", "webp">>, <<"image/", "jpeg">>, <<"image/", "jpg">>, <<"image/", "png">>}

ProcessorInit ==
    /\ HandlerIdle("processor")
    /\ contentType \in ProcessorContentTypes
    /\ sharpAnswer \in ConversionOutcomes
    /\ invocations = <<>> /\ s3Bucket = {} /\ b2Bucket = {}

CallConvertToRekognitionCompatible ==
    /\ pc = "processor"
    /\ LET r == convertToRekognitionCompatible(RequestBuffer, contentType,
                                               sharpAnswer[1], sharpAnswer[2])
       IN  /\ decodes' = IF r.decoded THEN <<Decode(RequestBuffer, sharpAnswer[1])>>
                                      ELSE <<>>
           /\ encodes' = IF r.encoded THEN <<Encode("png", PNGOptions)>> ELSE <<>>
           /\ raised' = r.raised
           /\ rekImage' = IF r.ok THEN [buffer |-> r.buffer, format |-> r.format,
                                        converted |-> r.converted]
                                  ELSE NoImage
    /\ pc' = "returnedScanImage"
    /\ UNCHANGED <<client, req, contentType, scan, verdict, webpImage, finalFilename,
                   calls, response, harness>>

CallConvertToWebPIfNeeded ==
    /\ pc = "processor"
    /\ LET r == convertToWebPIfNeeded(RequestBuffer, contentType,
                                      sharpAnswer[1], sharpAnswer[2])
       IN  /\ decodes' = IF r.decoded THEN <<Decode(RequestBuffer, sharpAnswer[1])>>
                                      ELSE <<>>
           /\ encodes' = IF r.encoded THEN <<Encode("webp", WebPOptions(RequestBuffer))>>
                                      ELSE <<>>
           /\ raised' = r.raised
           /\ webpImage' = IF r.ok THEN [buffer |-> r.buffer, format |-> r.format,
                                         converted |-> r.converted]
                                   ELSE NoImage
    /\ pc' = "returnedWebPImage"
    /\ UNCHANGED <<client, req, contentType, rekImage, scan, verdict, finalFilename,
                   calls, response, harness>>

ProcessorNext ==
    \/ CallConvertToRekognitionCompatible
    \/ CallConvertToWebPIfNeeded

ProcessorSpec == ProcessorInit /\ [][ProcessorNext]_vars

----------------------------------------------------------------------------
(* Observations on the call log *)

CallsTo(service, op) ==
    {i \in DOMAIN calls : calls[i].service = service /\ calls[i].op = op}

Uploads == CallsTo("backblaze", "putObject")

Deletes == CallsTo("s3", "deleteObject")

\* the staging upload and the label detections issued so far
ScanCalls ==
    CallsTo("s3", "putObject") \cup CallsTo("rekognition", "detectModerationLabels")
        \cup CallsTo("rekognition", "detectLabels")

SomeScanCallFailed == \E i \in ScanCalls : calls[i].result # "ok"

\* staging and every label detection of the deployed client have succeeded
ScanCallsSucceeded ==
    /\ \A i \in ScanCalls : calls[i].result = "ok"
    /\ CallsTo("rekognition", "detectModerationLabels") # {}
    /\ client = "hybrid" => CallsTo("rekognition", "detectLabels") # {}

ValidationKinds == {"VALIDATION_ERROR", "UNSUPPORTED_FORMAT", "FILE_TOO_LARGE"}

\* the nine categories the specification names as disallowed
DisallowedSet ==
    {"Explicit Nudity", "Visually Disturbing", "Hate Symbols", "Gambling", "Drugs",
     "Tobacco", "Alcohol", "Rude Gestures", "Adult Content"}

ReachesThreshold(label) == label.Confidence # NoConfidence /\ label.Confidence >= 70

----------------------------------------------------------------------------
(* C1 *)

\* C1: the Backblaze putObject is issued only after the scan of the request has
\* returned passed = true; on a verdict passed = false the handler has returned
\* 400 MODERATION_FAILED with no WebP conversion and no upload.
C1_UploadOnlyAfterPass ==
    /\ Uploads # {} => verdict.returned /\ verdict.passed
    /\ pc \in {"convertWebP", "putObject"} => verdict.returned /\ verdict.passed
    /\ verdict.returned /\ ~verdict.passed =>
          /\ pc = "done"
          /\ response.statusCode = 400 /\ response.error = "MODERATION_FAILED"
          /\ webpImage = NoImage
          /\ Uploads = {}
          /\ Len(decodes) = IF rekImage.converted THEN 1 ELSE 0

\* C1 witness: a scan rejected the content and the handler has returned
C1_Witness ==
    /\ pc = "done" /\ verdict.returned /\ ~verdict.passed /\ ~verdict.hasError
    /\ response.error = "MODERATION_FAILED"

----------------------------------------------------------------------------
(* C2 *)

\* C2: whatever the outcome of the scan (pass, reject, staging failure, detection
\* failure, failure of the delete itself), once the scan has returned the delete
\* of the transient object has been invoked exactly once.
C2_DeleteExactlyOnce ==
    verdict.returned => Cardinality(Deletes) = 1

----------------------------------------------------------------------------
(* C3 *)

\* C3: a failure of the delete never changes the verdict: when staging and label
\* detection succeeded, the scan returns the verdict computed from the labels
\* (passed = true when no disallowed label reached the threshold, and the labels
\* and confidence in any case), also when the delete call fails.
C3_DeleteFailureKeepsVerdict ==
    verdict.returned /\ ScanCallsSucceeded =>
        /\ verdict.moderationLabels = labelNames(scan.labels)
        /\ verdict.confidence = maxConfidence(scan.labels)
        /\ (\A i \in DOMAIN scan.labels :
               ~(scan.labels[i].Name \in RejectedLabelNames(client)
                   /\ ReachesThreshold(scan.labels[i])))
              => verdict.passed

----------------------------------------------------------------------------
(* C4 *)

----------------------------------------------------------------------------
(* C5 *)

\* C5: every verdict returned has passed = false when it carries an error and
\* when some returned label of the disallowed set has confidence >= 70 (70 itself
\* rejects); a verdict without error whose disallowed labels are all below 70 or
\* without confidence, and that has no other label, is passed = true.
C5_VerdictInvariant ==
    verdict.returned =>
        /\ verdict.hasError => ~verdict.passed
        /\ (\E i \in DOMAIN scan.labels :
               scan.labels[i].Name \in DisallowedSet /\ ReachesThreshold(scan.labels[i]))
              => ~verdict.passed
        /\ (/\ ~verdict.hasError
            /\ \A i \in DOMAIN scan.labels :
                  scan.labels[i].Name \in DisallowedSet /\ ~ReachesThreshold(scan.labels[i]))
              => verdict.passed

\* C5 witness: a disallowed label at exactly 70 was returned and the verdict is a
\* content rejection
C5_Witness ==
    /\ verdict.returned /\ ~verdict.hasError /\ ~verdict.passed
    /\ scan.labels = <<[Name |-> "Explicit Nudity", Confidence |-> 70]>>

----------------------------------------------------------------------------
(* C6 *)

AllCallsSucceeded == \A i \in DOMAIN calls : calls[i].result = "ok"

\* the scan has returned and every label at or above 70 has its name in names
OnlyLabelsAtThreshold(names) ==
    /\ verdict.returned /\ ScanCallsSucceeded /\ AllCallsSucceeded
    /\ \A i \in DOMAIN scan.labels :
          ReachesThreshold(scan.labels[i]) => scan.labels[i].Name \in names

----------------------------------------------------------------------------
(* C7 *)

\* the classifier as the claim words it: the leading media-type prefix is
\* stripped, the rest lower-cased and looked up
PrefixStripped(ct) ==
    IF Len(ct) > 0 /\ LowerToken(ct[1]) = "image/" THEN Tail(ct) ELSE ct

AcceptedByPrefixRule(ct) ==
    toLowerCase(PrefixStripped(ct)) \in {<<"webp">>, <<"jpg">>, <<"jpeg">>, <<"png">>}

\* C7: a declared content type is accepted exactly when, with its media-type
\* prefix stripped and lower-cased, it is one of webp, jpg, jpeg, png; every
\* other string is answered 400 UNSUPPORTED_FORMAT.
C7_AcceptedIffPrefixRule ==
    pc # "validate" /\ ~MissingFields(req) =>
        ((pc = "done" /\ response.statusCode = 400
              /\ response.error = "UNSUPPORTED_FORMAT")
           <=> ~AcceptedByPrefixRule(DeclaredContentType(req)))

----------------------------------------------------------------------------
(* C8 *)

\* C8: a request rejected at validation (missing imageData or filename, an
\* unsupported format such as gif, or more than 2 MiB) causes no decode and no
\* network call: nothing is staged, scanned, deleted or uploaded.
C8_RejectedCausesNothing ==
    /\ response.error \in ValidationKinds =>
          /\ pc = "done" /\ response.statusCode = 400
          /\ calls = <<>> /\ decodes = <<>>
          /\ rekImage = NoImage /\ scan = NoScan /\ webpImage = NoImage
    /\ (\/ ~req.hasImageData
        \/ req.filename = <<>>
        \/ includes(req.contentType, "gif")
        \/ req.size > 2097152)
          => calls = <<>> /\ decodes = <<>> /\ (pc = "done" => response.error \in ValidationKinds)

\* C8 witness: image/gif was answered UNSUPPORTED_FORMAT
C8_Witness ==
    /\ pc = "done" /\ response.error = "UNSUPPORTED_FORMAT"
    /\ req.contentType = <<"image/", "gif">>

----------------------------------------------------------------------------
(* C9 *)

\* C9: with the fields present and the format supported, a payload of exactly
\* 2097152 bytes passes the size check and goes on to the moderation step; one of
\* 2097153 bytes or more is answered 400 FILE_TOO_LARGE.
C9_SizeBoundary ==
    pc # "validate" /\ ~MissingFields(req) /\ isSupportedFormat(DeclaredContentType(req)) =>
        /\ req.size >= 2097153 =>
              pc = "done" /\ response.statusCode = 400 /\ response.error = "FILE_TOO_LARGE"
        /\ req.size <= 2097152 =>
              /\ response.error \notin ValidationKinds
              /\ contentType = DeclaredContentType(req)

\* C9 witness: a payload of exactly 2 MiB has been staged for the scan
C9_Witness ==
    req.size = 2097152 /\ pc = "detectModeration"

----------------------------------------------------------------------------
(* C10 *)

\* C10: convertToRekognitionCompatible returns the identical buffer with
\* converted = false and without decoding (so it cannot fail) for every supported
\* content type denoting JPEG (image/jpeg, image/jpg) or PNG, and for webp, on
\* success, a different buffer tagged png with converted = true.
C10_ScanCompatiblePassThrough ==
    LET format == extractFormatFromContentType(DeclaredContentType(req))
    IN  pc \notin {"validate", "convertRekognition"} /\ response.error \notin ValidationKinds =>
            /\ format \in {<<"jpeg">>, <<"jpg">>, <<"png">>} =>
                  /\ rekImage.buffer = RequestBuffer /\ ~rekImage.converted
                  /\ pc \in {"stage", "detectModeration", "detectLabels", "cleanup",
                             "cleanupAfterError"} => decodes = <<>>
            /\ format = <<"webp">> /\ rekImage # NoImage =>
                  /\ rekImage.buffer # RequestBuffer
                  /\ rekImage.format = <<"png">> /\ rekImage.converted

----------------------------------------------------------------------------
(* C11 *)

\* the declared format, as the ImageProcessor extracts it
DeclaredFormat == extractFormatFromContentType(contentType)

\* convertToWebPIfNeeded has returned a result
WebPStepReturned == pc = "putObject" \/ Uploads # {}

\* C11: convertToWebPIfNeeded returns, when the declared format is webp, the
\* identical input buffer with format webp and converted = false, without
\* decoding or encoding (so it cannot fail); for every other declared format it
\* returns, on success, a newly encoded buffer with format webp and
\* converted = true; every successful result is tagged webp.
C11_WebPIfNeeded ==
    /\ WebPStepReturned => webpImage # NoImage /\ webpImage.format = <<"webp">>
    /\ webpImage # NoImage => WebPStepReturned
    /\ DeclaredFormat = <<"webp">> =>
          /\ \A i \in DOMAIN encodes : encodes[i].format # "webp"
          /\ Len(decodes) <= 1
          /\ verdict.returned /\ verdict.passed => pc = "convertWebP" \/ WebPStepReturned
          /\ WebPStepReturned =>
                webpImage.buffer = RequestBuffer /\ ~webpImage.converted
    /\ DeclaredFormat # <<"webp">> /\ WebPStepReturned =>
          /\ webpImage.converted
          /\ webpImage.buffer # RequestBuffer
          /\ webpImage.buffer = EncodedBuffer(RequestBuffer, "webp")
          /\ decodes[Len(decodes)].buffer = RequestBuffer /\ decodes[Len(decodes)].ok
          /\ encodes[Len(encodes)].format = "webp"

\* C11 witness: a webp request has been handed through to the upload unchanged
C11_Witness ==
    /\ pc = "putObject" /\ DeclaredFormat = <<"webp">>
    /\ webpImage.buffer = RequestBuffer /\ ~webpImage.converted

----------------------------------------------------------------------------
(* C12 *)

\* a request declared as webp has passed moderation and reached the upload
WebPPassedToUpload ==
    DeclaredFormat = <<"webp">> /\ verdict.returned /\ verdict.passed /\ WebPStepReturned

\* the buffer handed to the storage upload is the original input buffer
UploadsOriginalBuffer ==
    /\ webpImage.buffer = RequestBuffer
    /\ \A i \in Uploads : calls[i].body = RequestBuffer

\* C12 as claimed: for a request declared as webp whose moderation passes, no
\* conversion occurs at either boundary (converted = false in the
\* scan-compatibility step and in the storage-format step) and the buffer handed
\* to the storage upload is the original input buffer.
C12_NoConversionAtAll ==
    WebPPassedToUpload =>
        /\ ~rekImage.converted
        /\ ~webpImage.converted
        /\ UploadsOriginalBuffer

\* C12 as amended: for a request declared as webp whose moderation passes, the
\* scan-compatibility step converts (converted = true, a PNG encoding of the
\* input is what is staged and scanned), the storage-format step does not
\* (converted = false), and the buffer handed to the storage upload is the
\* original input buffer.
C12_WebPStoredUnchanged ==
    WebPPassedToUpload =>
        /\ rekImage.converted /\ rekImage.format = <<"png">>
        /\ rekImage.buffer = EncodedBuffer(RequestBuffer, "png")
        /\ \A i \in CallsTo("s3", "putObject") : calls[i].body = rekImage.buffer
        /\ ~webpImage.converted
        /\ UploadsOriginalBuffer
        /\ Len(decodes) = 1 /\ Len(encodes) = 1 /\ encodes[1].format = "png"

\* C12 witness: the original buffer of a webp request has been uploaded
C12_Witness ==
    /\ WebPPassedToUpload /\ pc = "done" /\ response.success
    /\ \E i \in Uploads : calls[i].body = RequestBuffer /\ calls[i].result = "ok"

----------------------------------------------------------------------------
(* C13 *)

\* the storage upload was issued and succeeded
UploadSucceeded == \E i \in Uploads : calls[i].result = "ok"

\* C13: for a valid request of content type image/jpeg whose moderation passes
\* and whose upload succeeds, the response is status 200 with success = true,
\* data.finalFormat "webp" and data.originalFormat "jpg".
C13_JpegReportedAsJpg ==
    /\ pc = "done" /\ contentType = <<"image/", "jpeg">>
    /\ verdict.returned /\ verdict.passed /\ UploadSucceeded
    => /\ response.statusCode = 200 /\ response.success
       /\ response.finalFormat = <<"webp">>
       /\ response.originalFormat = <<"jpg">>

----------------------------------------------------------------------------
(* C14 *)

\* the rejection response as a function of label names and confidence alone
RejectionResponse(names, confidence) ==
    [statusCode |-> 400, success |-> FALSE, message |-> "Image failed moderation checks",
     error |-> "MODERATION_FAILED", moderationLabels |-> names,
     confidence |-> confidence, filename |-> <<>>, originalFormat |-> <<>>,
     finalFormat |-> <<>>, url |-> <<>>]

\* C14: a moderation rejection is answered with status 400, error
\* MODERATION_FAILED and data carrying the label names and the maximum confidence
\* of the verdict; the response does not depend on the provider's error text:
\* every run whose scan failed gets the same response, whatever the error was.
C14_RejectionIndependentOfErrorText ==
    pc = "done" /\ verdict.returned /\ ~verdict.passed =>
        /\ response.statusCode = 400 /\ response.error = "MODERATION_FAILED"
        /\ response = RejectionResponse(verdict.moderationLabels, verdict.confidence)
        /\ ~verdict.hasError =>
              /\ response.moderationLabels = labelNames(scan.labels)
              /\ response.confidence = maxConfidence(scan.labels)
        /\ verdict.hasError =>
              /\ verdict.error \in ProviderErrors
              /\ response = RejectionResponse(<<>>, 0)

\* C14 witness: the provider failed with a throttling error and the handler has
\* answered the rejection
C14_Witness ==
    /\ pc = "done" /\ verdict.returned /\ verdict.hasError
    /\ verdict.error = "ThrottlingException"
    /\ response.error = "MODERATION_FAILED"

----------------------------------------------------------------------------
(* C15 *)

EndsInWebP(filename) == Len(filename) > 0 /\ filename[Len(filename)] = ".webp"

\* C15: for every caller-supplied filename, with or without an extension, the key
\* of the storage upload and the filename of the success response end in ".webp".
C15_KeyEndsInWebP ==
    /\ \A i \in Uploads : EndsInWebP(calls[i].key)
    /\ response.success => EndsInWebP(response.filename)

----------------------------------------------------------------------------
(* C16 *)

\* the effort of an encode: sharp's default of 4 when the options name none
EffortOf(options) == IF "effort" \in DOMAIN options THEN options.effort ELSE 4

\* C16: the options of the WebP encode depend on the byte length of the input:
\* quality 80 and effort 4 up to 1 MiB, quality 75 and effort 5 above 1 MiB.
C16_QualityBySize ==
    \A i \in DOMAIN encodes :
        encodes[i].format = "webp" =>
            IF req.size <= 1024 * 1024
            THEN encodes[i].options.quality = 80 /\ EffortOf(encodes[i].options) = 4
            ELSE encodes[i].options.quality = 75 /\ EffortOf(encodes[i].options) = 5

----------------------------------------------------------------------------
(* C17 *)

\* C17: at decode, an image whose reported width and height are both at most
\* 8192 passes the dimension check (8192 x 8192 passes); one whose width or
\* height is 8193 or more fails with ImageTooLarge, status 413, also when its
\* pixel count is within the limit of 67108864 pixels.
C17_DimensionBoundary ==
    \A i \in DOMAIN decodes :
        LET d == decodes[i]
        IN  /\ d.width # 0 /\ d.height # 0 /\ d.width <= 8192 /\ d.height <= 8192
                => d.ok
            /\ d.width >= 8193 \/ d.height >= 8193
                => /\ ~d.ok
                   /\ d.errorType = "ImageTooLarge" /\ d.statusCode = 413
                   /\ \E j \in DOMAIN raised :
                         raised[j].errorType = "ImageTooLarge" /\ raised[j].statusCode = 413

\* C17 witness: an image of 8193 x 100, far below the pixel limit, was refused at
\* decode as ImageTooLarge
C17_Witness ==
    \E i \in DOMAIN decodes :
        /\ decodes[i].width = 8193 /\ decodes[i].height = 100
        /\ decodes[i].width * decodes[i].height <= 67108864
        /\ ~decodes[i].ok /\ decodes[i].errorType = "ImageTooLarge"

----------------------------------------------------------------------------
(* C18 *)

\* the storage upload was issued and failed
UploadFailed == \E i \in Uploads : calls[i].result # "ok"

\* the last pass through instantiateSharpImage threw
LastDecodeFailed == decodes # <<>> /\ ~decodes[Len(decodes)].ok

\* the last ImageProcessorError thrown has this kind
LastRaisedIs(errorType) ==
    raised # <<>> /\ raised[Len(raised)].errorType = errorType

\* C18: every failure response carries the kind and status that the table of
\* section 7 assigns to its cause: an oversized decode 413 ImageTooLarge, memory
\* exhaustion 413 MemoryLimitExceeded, undecodable bytes 400 InvalidImageFormat,
\* a conversion timeout 408 ProcessingTimeout, a failed storage upload 500
\* UploadFailure; 500 INTERNAL_ERROR is answered only when no such failure
\* occurred.
C18_FailureKindsPerTable ==
    pc = "done" /\ ~response.success =>
        /\ LastDecodeFailed
              /\ decodes[Len(decodes)].errorType
                     \in {"ImageTooLarge", "MemoryLimitExceeded", "InvalidImageFormat"}
              => /\ response.error = decodes[Len(decodes)].errorType
                 /\ response.statusCode = decodes[Len(decodes)].statusCode
        /\ LastRaisedIs("ProcessingTimeout")
              => response.statusCode = 408 /\ response.error = "ProcessingTimeout"
        /\ UploadFailed
              => response.statusCode = 500 /\ response.error = "UploadFailure"
        /\ response.error = "INTERNAL_ERROR"
              => response.statusCode = 500 /\ raised = <<>> /\ ~UploadFailed

----------------------------------------------------------------------------
(* C19 *)

DecodeKinds ==
    {"InvalidImageFormat", "MemoryLimitExceeded", "ImageTooLarge", "InstantiationError"}

\* the scan-compatibility step of a webp request failed in its decode
ScanDecodeFailed ==
    /\ DeclaredFormat = <<"webp">> /\ pc = "done" /\ rekImage = NoImage
    /\ Len(decodes) = 1 /\ ~decodes[1].ok

\* C19: when the scan-compatibility step has to convert (webp input) and the
\* decode fails, convertToRekognitionCompatible fails with the kind the decode
\* was classified with: InvalidImageFormat, MemoryLimitExceeded, ImageTooLarge
\* or InstantiationError.
C19_DecodeKindPropagates ==
    ScanDecodeFailed =>
        /\ decodes[1].errorType \in DecodeKinds
        /\ raised[Len(raised)].errorType = decodes[1].errorType
        /\ raised[Len(raised)].statusCode = decodes[1].statusCode

----------------------------------------------------------------------------
(* C20 *)

\* C20: no automatic retry: within one request the staging upload, each label
\* detection and the storage upload are each invoked at most once, whatever
\* their outcomes; a failed call is never followed by the same call.
C20_NoRetry ==
    /\ Cardinality(CallsTo("s3", "putObject")) <= 1
    /\ Cardinality(CallsTo("rekognition", "detectModerationLabels")) <= 1
    /\ Cardinality(CallsTo("rekognition", "detectLabels")) <= 1
    /\ Cardinality(Uploads) <= 1
    /\ \A i \in ScanCalls \cup Uploads :
          calls[i].result # "ok" =>
              \A j \in DOMAIN calls :
                  j > i => calls[j].service = "s3" /\ calls[j].op = "deleteObject"

\* C20 witness: the storage upload failed and the request has ended with that
\* one upload
C20_Witness ==
    pc = "done" /\ UploadFailed /\ Cardinality(Uploads) = 1

----------------------------------------------------------------------------
(* C21 *)

\* the place of a call in the order of one request
Phase(call) ==
    CASE call.service = "s3" /\ call.op = "putObject" -> 1
      [] call.op = "detectModerationLabels" -> 2
      [] call.op = "detectLabels" -> 3
      [] call.service = "s3" /\ call.op = "deleteObject" -> 4
      [] OTHER -> 5

\* the staging upload went through
StagingSucceeded == \E i \in CallsTo("s3", "putObject") : calls[i].result = "ok"

\* C21: the network calls of one request are issued one after the other, each
\* after the previous one has returned, in the order staging upload, label
\* detection, transient delete, permanent upload; the permanent upload is issued
\* only on a pass and only after the transient delete has been attempted.
C21_CallsInOrder ==
    /\ \A i, j \in DOMAIN calls : i < j => Phase(calls[i]) <= Phase(calls[j])
    /\ calls # <<>> => Phase(calls[1]) = 1
    /\ \A i \in Deletes :
          StagingSucceeded => \E j \in CallsTo("rekognition", "detectModerationLabels") : j < i
    /\ \A i \in Uploads :
          /\ verdict.returned /\ verdict.passed
          /\ \E j \in Deletes : j < i
          /\ \E j \in ScanCalls : j < i /\ Phase(calls[j]) = 2
    /\ \A i \in DOMAIN calls : calls[i].result \in ProviderOutcomes

\* C21 witness: the hybrid client ran all five calls of a passing request
C21_Witness ==
    /\ client = "hybrid" /\ Len(calls) = 5 /\ AllCallsSucceeded
    /\ [i \in 1..5 |-> Phase(calls[i])] = <<1, 2, 3, 4, 5>>

----------------------------------------------------------------------------
(* C22 *)

Done == pc = "done"

\* the awaits and returns the handler has ahead of it at most
StepsAhead ==
    CASE pc = "validate" -> 9
      [] pc = "convertRekognition" -> 8
      [] pc = "stage" -> 7
      [] pc = "detectModeration" -> 6
      [] pc = "detectLabels" -> 5
      [] pc = "cleanup" -> 4
      [] pc = "cleanupAfterError" -> 3
      [] pc = "convertWebP" -> 2
      [] pc = "putObject" -> 1
      [] OTHER -> 0

\* the response is there exactly when the handler has returned, and is either
\* the success or a failure with a kind and a message
ResponseWellFormed ==
    IF Done
    THEN /\ response # NoResponse /\ response.message # ""
         /\ response.success => response.statusCode = 200 /\ response.error = ""
         /\ ~response.success =>
               /\ response.error # "" /\ response.statusCode \in {400, 500}
               /\ response.error \notin ValidationKinds \cup {"MODERATION_FAILED"}
                     => response.statusCode = 500 /\ response.error = "INTERNAL_ERROR"
    ELSE response = NoResponse

\* C22: every request ends in exactly one response: the handler is never stuck
\* before its return (while it has not returned, a step is possible, so it
\* returns once every pending call returns or fails), every step brings the
\* return nearer, the response is set once and is either 200 success or a
\* failure with kind and message, failures not otherwise handled being 500
\* INTERNAL_ERROR; success = true never comes with an error kind.
C22_OneResponse ==
    /\ [](Done \/ ENABLED Next)
    /\ [][StepsAhead' < StepsAhead]_vars
    /\ []ResponseWellFormed
    /\ [][response # NoResponse => response' = response]_vars

\* C22 witness: a failure inside the pipeline was answered by the catch block
C22_Witness ==
    Done /\ response.statusCode = 500 /\ response.error = "INTERNAL_ERROR" /\ raised # <<>>

----------------------------------------------------------------------------
(* C23 *)

\* sharp threw at decode in the call under test
DecodeThrew == decodes # <<>> /\ ~sharpAnswer[1].ok

\* the message of the Error thrown at decode has this substring
DecodeSignal(s) == sharpAnswer[1].error.isError /\ s \in sharpAnswer[1].error.message

FormatSignal == DecodeSignal("unsupported image format")

PixelSignal == DecodeSignal("pixel") \/ DecodeSignal("dimension")

\* the kind and status the decode left with
DecodeClassifiedAs(errorType, statusCode) ==
    /\ decodes[1].errorType = errorType /\ decodes[1].statusCode = statusCode
    /\ raised[1].errorType = errorType /\ raised[1].statusCode = statusCode

\* the classification by the priority order, given what counts as memory signal
ClassifiedByPriority(memorySignal) ==
    IF memorySignal THEN DecodeClassifiedAs("MemoryLimitExceeded", 413)
    ELSE IF PixelSignal THEN DecodeClassifiedAs("ImageTooLarge", 413)
    ELSE IF FormatSignal THEN DecodeClassifiedAs("InvalidImageFormat", 400)
    ELSE DecodeClassifiedAs("InstantiationError", 400)

----------------------------------------------------------------------------
(* C24 *)

\* a conversion of the call under test failed
ConversionFailed ==
    pc \in {"returnedScanImage", "returnedWebPImage"} /\ raised # <<>>

\* the decode returned and the encode threw
EncodeThrew ==
    sharpAnswer[1].ok /\ ~DimensionsExceed(sharpAnswer[1]) /\ ~sharpAnswer[2].ok

\* the message of the Error thrown by the encode has this substring
EncodeSignal(s) == sharpAnswer[2].error.isError /\ s \in sharpAnswer[2].error.message

EncodeMemorySignal == EncodeSignal("memory") \/ EncodeSignal("buffer")

EncodeTimeoutSignal == EncodeSignal("timeout") \/ EncodeSignal("timed out")

\* the error the conversion step (convertToPNG, convertToWebP) left with: in the
\* scan-compatibility call the last error raised is that of the caller
StepError ==
    IF pc = "returnedScanImage" THEN raised[Len(raised) - 1] ELSE raised[Len(raised)]

StepKind ==
    IF pc = "returnedScanImage" THEN "PNGConversionError" ELSE "WebPConversionError"

\* C24: in every conversion step, to PNG and to WebP, a timeout signal yields
\* ProcessingTimeout (408), any other unclassified failure of the encode yields
\* the conversion kind of the step (PNGConversionError, WebPConversionError, 500),
\* and an ImageProcessorError raised by the decode passes through with its kind
\* and status unchanged.
C24_ConversionClassification ==
    ConversionFailed =>
        /\ EncodeThrew /\ EncodeTimeoutSignal /\ ~EncodeMemorySignal
              => StepError.errorType = "ProcessingTimeout" /\ StepError.statusCode = 408
        /\ EncodeThrew /\ ~EncodeTimeoutSignal /\ ~EncodeMemorySignal
              => StepError.errorType = StepKind /\ StepError.statusCode = 500
        /\ ~decodes[1].ok
              => /\ StepError.errorType = decodes[1].errorType
                 /\ StepError.statusCode = decodes[1].statusCode

----------------------------------------------------------------------------
(* C25 *)

\* the kinds of the taxonomy that the image processor raises, with their status
ProcessorTaxonomy ==
    {<<"InvalidImageFormat", 400>>, <<"InstantiationError", 400>>,
     <<"ImageTooLarge", 413>>, <<"MemoryLimitExceeded", 413>>,
     <<"ProcessingTimeout", 408>>, <<"PNGConversionError", 500>>,
     <<"WebPConversionError", 500>>, <<"RekognitionCompatibilityError", 500>>}

----------------------------------------------------------------------------
(* C26 *)

\* mutant: the scan image is a local of the handler and lives until it returns
ScanFrameActive_UntilReturn ==
    pc \in {"convertRekognition", "stage", "detectModeration", "detectLabels", "cleanup",
            "cleanupAfterError", "convertWebP", "putObject"}

\* the handler's scanImageForModeration has been called and has not returned:
\* its local rekognitionImage and the locals of the client exist
ScanFrameActive ==
    pc \in {"convertRekognition", "stage", "detectModeration", "detectLabels", "cleanup",
            "cleanupAfterError"}

\* uploadImageToBackblaze has been called and has not returned: its local
\* webpImage exists
UploadFrameActive == pc \in {"convertWebP", "putObject"}

\* the buffers that the locals of the frames on the stack refer to
Referenced ==
    (IF pc \notin {"validate", "done"} THEN {RequestBuffer} ELSE {})
    \cup (IF ScanFrameActive /\ rekImage # NoImage THEN {rekImage.buffer} ELSE {})
    \cup (IF ScanFrameActive /\ scan # NoScan THEN {scan.buffer} ELSE {})
    \cup (IF UploadFrameActive /\ webpImage # NoImage THEN {webpImage.buffer} ELSE {})

PNGBuffer == EncodedBuffer(RequestBuffer, "png")

WebPBuffer == EncodedBuffer(RequestBuffer, "webp")

----------------------------------------------------------------------------
(* C27 *)

\* the encoding of the bytes of a buffer: that of the payload, or the one sharp
\* encoded it to
EncodingOf(buffer) == IF buffer.conv = "none" THEN req.bytes ELSE buffer.conv

\* the extension of a transient key
KeyExtension(key) == key[Len(key)]

\* C27: the extension of the transient key matches the encoding of the staged
\* bytes and the content type they are staged with: jpg exactly when the staged
\* buffer is JPEG, png exactly when it is PNG, on every path to the scan.
C27_KeyExtensionMatchesEncoding ==
    \A i \in CallsTo("s3", "putObject") :
        /\ KeyExtension(calls[i].key) \in {"jpg", "png"}
        /\ KeyExtension(calls[i].key) = "jpg" <=> EncodingOf(calls[i].body) = "jpeg"
        /\ KeyExtension(calls[i].key) = "png" <=> EncodingOf(calls[i].body) = "png"
        /\ KeyExtension(calls[i].key) = "jpg" <=> calls[i].ctype = <<"image/", "jpeg">>
        /\ KeyExtension(calls[i].key) = "png" <=> calls[i].ctype = <<"image/", "png">>

----------------------------------------------------------------------------
(* ConcurrentSpec: invocations of the handler side by side. Each is a valid *)
(* request on its way through the scan and the upload; the two buckets are  *)
(* all they share. A buffer is named by the invocation it belongs to; the   *)
(* validation and the conversions touch nothing shared and are left out.    *)

NumInvocations == 2

Invocations == 1 .. NumInvocations

ConcurrentFileNames == {<<"photo", ".jpg">>, <<"photo", ".png">>, <<"other", ".jpg">>}

handlerVars ==
    <<client, req, pc, contentType, rekImage, scan, verdict, webpImage, finalFilename,
      calls, decodes, encodes, raised, response, sharpAnswer>>

\* mutant: every invocation draws the same identifier
uuidv4_Fixed(i) == 1

\* uuidv4(): an identifier no other invocation draws
uuidv4(i) == i

tempKey(i) == <<"temp-moderation/", uuidv4(i), "jpg">>

\* putObject: the object under the key is replaced
Put(bucket, key, body) ==
    {o \in bucket : o.key # key} \cup {[key |-> key, body |-> body]}

\* the buffers stored under a key
BodiesAt(bucket, key) == {o.body : o \in {x \in bucket : x.key = key}}

NewInvocation(filename) ==
    [filename |-> filename, pc |-> "stage", key |-> <<>>, read |-> {}, deleted |-> {},
     passed |-> FALSE, statusCode |-> 0, url |-> <<>>]

ConcurrentInit ==
    /\ HandlerIdle("concurrent")
    /\ contentType = <<>>
    /\ sharpAnswer = <<>>
    /\ invocations \in [Invocations -> {NewInvocation(f) : f \in ConcurrentFileNames}]
    /\ s3Bucket = {}
    /\ b2Bucket = {}

\* s3.putObject under the transient key
StageOf(i) ==
    /\ invocations[i].pc = "stage"
    /\ \/ /\ s3Bucket' = Put(s3Bucket, tempKey(i), i)
          /\ invocations' = [invocations EXCEPT ![i].key = tempKey(i),
                                                ![i].pc = "detectModeration"]
       \/ /\ invocations' = [invocations EXCEPT ![i].key = tempKey(i),
                                                ![i].pc = "cleanupAfterError"]
          /\ UNCHANGED s3Bucket
    /\ UNCHANGED <<b2Bucket, handlerVars>>

\* a detection call reads the object under Name: tempKey; without one it fails
DetectOf(i, position, next) ==
    /\ invocations[i].pc = position
    /\ \/ /\ BodiesAt(s3Bucket, invocations[i].key) # {}
          /\ invocations' =
                [invocations EXCEPT
                    ![i].read = @ \cup BodiesAt(s3Bucket, invocations[i].key),
                    ![i].pc = next]
       \/ invocations' = [invocations EXCEPT ![i].pc = "cleanupAfterError"]
    /\ UNCHANGED <<s3Bucket, b2Bucket, handlerVars>>

DetectModerationOf(i) == DetectOf(i, "detectModeration", "detectLabels")

DetectLabelsOf(i) == DetectOf(i, "detectLabels", "cleanup")

\* the delete of the try block, then the verdict: passed or rejected
CleanupOf(i) ==
    /\ invocations[i].pc = "cleanup"
    /\ \/ \E passed \in BOOLEAN :
            /\ s3Bucket' = {o \in s3Bucket : o.key # invocations[i].key}
            /\ invocations' =
                  [invocations EXCEPT
                      ![i].deleted = @ \cup BodiesAt(s3Bucket, invocations[i].key),
                      ![i].passed = passed,
                      ![i].statusCode = IF passed THEN 0 ELSE 400,
                      ![i].pc = IF passed THEN "putObject" ELSE "done"]
       \/ /\ invocations' = [invocations EXCEPT ![i].pc = "cleanupAfterError"]
          /\ UNCHANGED s3Bucket
    /\ UNCHANGED <<b2Bucket, handlerVars>>

\* the delete of the catch block, then the error verdict
CleanupAfterErrorOf(i) ==
    /\ invocations[i].pc = "cleanupAfterError"
    /\ \/ /\ s3Bucket' = {o \in s3Bucket : o.key # invocations[i].key}
          /\ invocations' =
                [invocations EXCEPT
                    ![i].deleted = @ \cup BodiesAt(s3Bucket, invocations[i].key),
                    ![i].statusCode = 400, ![i].pc = "done"]
       \/ /\ invocations' = [invocations EXCEPT ![i].statusCode = 400, ![i].pc = "done"]
          /\ UNCHANGED s3Bucket
    /\ UNCHANGED <<b2Bucket, handlerVars>>

\* backblazeS3.putObject under the final file name, then the response
PutObjectOf(i) ==
    /\ invocations[i].pc = "putObject"
    /\ LET final == replaceExtension(invocations[i].filename)
       IN  \/ /\ b2Bucket' = Put(b2Bucket, final, i)
              /\ invocations' = [invocations EXCEPT ![i].statusCode = 200,
                                                    ![i].url = final, ![i].pc = "done"]
           \/ /\ invocations' = [invocations EXCEPT ![i].statusCode = 500,
                                                    ![i].pc = "done"]
              /\ UNCHANGED b2Bucket
    /\ UNCHANGED <<s3Bucket, handlerVars>>

InvocationStage == \E i \in Invocations : StageOf(i)

InvocationDetectModeration == \E i \in Invocations : DetectModerationOf(i)

InvocationDetectLabels == \E i \in Invocations : DetectLabelsOf(i)

InvocationCleanup == \E i \in Invocations : CleanupOf(i)

InvocationCleanupAfterError == \E i \in Invocations : CleanupAfterErrorOf(i)

InvocationPutObject == \E i \in Invocations : PutObjectOf(i)

ConcurrentNext ==
    \/ InvocationStage
    \/ InvocationDetectModeration
    \/ InvocationDetectLabels
    \/ InvocationCleanup
    \/ InvocationCleanupAfterError
    \/ InvocationPutObject

ConcurrentSpec == ConcurrentInit /\ [][ConcurrentNext]_vars

----------------------------------------------------------------------------
(* C28 *)

\* C28: under any interleaving of invocations, each with its own transient key,
\* the detection calls of an invocation read only the object it staged and its
\* delete removes only that object, never one another invocation staged.
C28_OwnTransientObjectOnly ==
    \A i \in Invocations :
        /\ invocations[i].read \subseteq {i}
        /\ invocations[i].deleted \subseteq {i}

\* two transient objects are in the bucket while one invocation has read its own,
\* and another invocation has already deleted its own
C28_Witness ==
    /\ invocations # <<>>
    /\ s3Bucket # {}
    /\ \E i, j \in Invocations :
          /\ i # j
          /\ invocations[i].read = {i} /\ invocations[i].pc = "detectLabels"
          /\ invocations[j].deleted = {j}
          /\ BodiesAt(s3Bucket, invocations[i].key) = {i}

----------------------------------------------------------------------------
(* C29 *)

\* the invocations that answered 200
Published == {i \in Invocations : invocations # <<>> /\ invocations[i].statusCode = 200}

\* C29: invocations share no mutable state: once an invocation has answered 200,
\* the object stored at the address it returned holds its own final buffer, so
\* no upload of another invocation replaces an object that was published.
C29_PublishedObjectKept ==
    \A i \in Published : BodiesAt(b2Bucket, invocations[i].url) = {i}

----------------------------------------------------------------------------
(* C30 *)

\* the scan came back from the try block
ScanWithoutError == verdict.returned /\ ~verdict.hasError

\* what a label counts for: a missing confidence counts as 0
Counted(label) == IF label.Confidence = NoConfidence THEN 0 ELSE label.Confidence

\* the names of the labels in provider order, empty names removed
NamesInOrder(labels) ==
    SelectSeq([i \in DOMAIN labels |-> labels[i].Name], LAMBDA n : n # "")

\* C30: on a scan without provider error the confidence of the verdict is the
\* maximum confidence over the moderation labels the provider returned (0 when it
\* returned none, a missing confidence counting as 0), and its label list is the
\* names of those labels in provider order with the empty names removed.
C30_ConfidenceAndNames ==
    ScanWithoutError =>
        /\ \A i \in DOMAIN scan.labels : verdict.confidence >= Counted(scan.labels[i])
        /\ IF scan.labels = <<>>
           THEN verdict.confidence = 0
           ELSE \E i \in DOMAIN scan.labels : verdict.confidence = Counted(scan.labels[i])
        /\ verdict.moderationLabels = NamesInOrder(scan.labels)

\* a label without a name at 70 comes first, then Weapons at 91
C30_Witness ==
    /\ ScanWithoutError
    /\ scan.labels = <<[Name |-> "", Confidence |-> REJECTION_THRESHOLD],
                       [Name |-> "Weapons", Confidence |-> 91]>>
    /\ verdict.confidence = 91
    /\ verdict.moderationLabels = <<"Weapons">>

----------------------------------------------------------------------------
(* C31 *)

\* a pass of the request buffer through instantiateSharpImage that returned, the
\* image within the dimension limit
DecodedWithinLimits(d) ==
    /\ d.buffer = RequestBuffer /\ d.ok
    /\ d.width <= MAX_IMAGE_DIMENSION /\ d.height <= MAX_IMAGE_DIMENSION

\* C31: no bytes reach permanent storage without a successful decode under the
\* safety limits in the same request: whatever supported format is declared, the
\* request buffer has passed through instantiateSharpImage, in the
\* scan-compatibility step or in the storage-format step, before the upload is
\* invoked.
C31_DecodedBeforeStorage ==
    (pc = "putObject" \/ Uploads # {}) =>
        \E k \in DOMAIN decodes : DecodedWithinLimits(decodes[k])

\* a webp request is uploaded as it came: its one decode was the scan's
C31_Witness ==
    /\ UploadSucceeded
    /\ DeclaredFormat = Str("webp")
    /\ UploadsOriginalBuffer
    /\ Len(decodes) = 1 /\ DecodedWithinLimits(decodes[1])

----------------------------------------------------------------------------
(* C32 *)

Responded == response # NoResponse

\* C32: the handler answers 200 if and only if the upload to permanent storage
\* of this request was invoked and completed: no failure response follows a
\* successful upload and no success response is given when the upload was not
\* performed or failed.
C32_SuccessIffUploaded ==
    /\ Responded => (response.statusCode = 200 <=> UploadSucceeded)
    /\ Responded => (response.success <=> UploadSucceeded)
    /\ UploadSucceeded => Responded
    /\ Uploads # {} => Cardinality(Uploads) = 1

\* the upload completed and the request was answered 200
C32_Witness ==
    /\ UploadSucceeded
    /\ Responded /\ response.statusCode = 200 /\ response.success

----------------------------------------------------------------------------
(* C33 *)

\* C33: the image that moderation scanned and the image that is stored derive
\* from the same request buffer: what is staged is the request buffer or its PNG
\* conversion, what is uploaded is the request buffer or its WebP conversion, and
\* a buffer from any other source is never staged or uploaded.
C33_SameOriginalBuffer ==
    /\ \A i \in CallsTo("s3", "putObject") :
          calls[i].body \in {RequestBuffer, EncodedBuffer(RequestBuffer, "png")}
    /\ \A i \in Uploads :
          calls[i].body \in {RequestBuffer, EncodedBuffer(RequestBuffer, "webp")}

\* a jpg request: its PNG conversion was staged and its WebP conversion uploaded
C33_Witness ==
    /\ \E i \in CallsTo("s3", "putObject") :
          calls[i].body = EncodedBuffer(RequestBuffer, "png")
    /\ \E i \in Uploads : calls[i].body = EncodedBuffer(RequestBuffer, "webp")

----------------------------------------------------------------------------
(* C34 *)

\* convertToRekognitionCompatible threw
ScanConversionFailed == LastRaisedIs("RekognitionCompatibilityError")

\* C34: when the scan-compatibility conversion fails, the failure leaves the
\* moderation step: nothing is staged, no label detection and no upload are
\* invoked, and the request ends with a failure response.
C34_ScanConversionFailurePropagates ==
    ScanConversionFailed =>
        /\ calls = <<>>
        /\ ~verdict.returned
        /\ Done /\ Responded
        /\ ~response.success /\ response.statusCode >= 400
        /\ response.error # "MODERATION_FAILED"

\* the decode of a webp request went through and the PNG encode threw
C34_Witness ==
    /\ ScanConversionFailed /\ Done
    /\ DeclaredFormat = Str("webp")
    /\ Len(decodes) = 1 /\ decodes[1].ok
    /\ Len(encodes) = 1

----------------------------------------------------------------------------
(* C35 *)

\* validation is over
Validated == pc # "validate"

\* imageData or filename is missing
FieldMissing == ~req.hasImageData \/ req.filename = <<>>

\* the content type of the request, image/jpeg when it has none, is a supported one
TypeSupported ==
    extractFormatFromContentType(
        IF req.contentType = <<>> THEN <<"image/", "jpeg">> ELSE req.contentType)
      \in SUPPORTED_FORMATS

\* C35: the validation checks have a fixed precedence: a missing imageData or
\* filename gives VALIDATION_ERROR whatever the other fields are; otherwise an
\* unsupported content type gives UNSUPPORTED_FORMAT even when the payload is
\* over 2 MiB as well; FILE_TOO_LARGE is given only for supported formats.
C35_ValidationPrecedence ==
    Validated =>
        /\ FieldMissing => response.error = "VALIDATION_ERROR"
        /\ (~FieldMissing /\ ~TypeSupported) => response.error = "UNSUPPORTED_FORMAT"
        /\ response.error = "FILE_TOO_LARGE" =>
              (~FieldMissing /\ TypeSupported /\ req.size > 2 * 1024 * 1024)
        /\ (~FieldMissing /\ TypeSupported /\ req.size > 2 * 1024 * 1024) =>
              response.error = "FILE_TOO_LARGE"

\* a gif of more than 2 MiB is answered UNSUPPORTED_FORMAT
C35_Witness ==
    /\ Validated
    /\ ~FieldMissing /\ ~TypeSupported
    /\ req.contentType = <<"image/", "gif">>
    /\ req.size > maxSizeBytes
    /\ response.error = "UNSUPPORTED_FORMAT"

----------------------------------------------------------------------------
(* C36 *)

\* the request has no contentType
TypeAbsent == req.contentType = <<>>

\* the same request declaring image/jpeg
DeclaringJpeg == [req EXCEPT !.contentType = <<"image/", "jpeg">>]

\* C36: a request without a contentType is processed exactly as one declaring
\* image/jpeg: it passes the format validation (and gets the validation answer of
\* its image/jpeg twin), its bytes are staged and scanned as they are without any
\* decode, and the originalFormat reported is that of image/jpeg.
C36_AbsentTypeIsJpeg ==
    (TypeAbsent /\ Validated) =>
        /\ response.error # "UNSUPPORTED_FORMAT"
        /\ IF ValidationResponse(DeclaringJpeg) # NoResponse
           THEN response = ValidationResponse(DeclaringJpeg) /\ calls = <<>>
           ELSE contentType = <<"image/", "jpeg">>
        /\ \A i \in CallsTo("s3", "putObject") :
              calls[i].body = RequestBuffer /\ calls[i].ctype = <<"image/", "jpeg">>
        /\ decodes # <<>> =>
              (verdict.returned /\ verdict.passed /\ pc \in {"putObject", "done"})
        /\ response.statusCode = 200 =>
              response.originalFormat = extractFormatFromContentType(<<"image/", "jpeg">>)

\* a request without contentType was staged as it came, stored and reported
C36_Witness ==
    /\ TypeAbsent
    /\ UploadSucceeded
    /\ \E i \in CallsTo("s3", "putObject") : calls[i].body = RequestBuffer
    /\ Len(decodes) = 1
    /\ response.originalFormat = Str("jpeg")

----------------------------------------------------------------------------
(* C37 *)

\* the decodes in which sharp reported a width or height over the limit
OverDimension ==
    {k \in DOMAIN decodes :
        decodes[k].width > MAX_IMAGE_DIMENSION \/ decodes[k].height > MAX_IMAGE_DIMENSION}

\* C37: the ImageTooLarge error that instantiateSharpImage throws inside its own
\* try block for a dimension over 8192 is caught by the catch block of the same
\* function and classified again from its message; the error that leaves the
\* function is a second throw and still has kind ImageTooLarge and status 413,
\* never MemoryLimitExceeded, InvalidImageFormat or InstantiationError.
C37_DimensionErrorKeepsKind ==
    OverDimension # {} =>
        /\ Len(raised) >= 2
        /\ raised[1].errorType = "ImageTooLarge" /\ raised[1].statusCode = 413
        /\ raised[2].errorType = "ImageTooLarge" /\ raised[2].statusCode = 413
        /\ raised[2].errorType \notin
              {"MemoryLimitExceeded", "InvalidImageFormat", "InstantiationError"}
        /\ \A k \in OverDimension :
              /\ decodes[k].errorType = raised[2].errorType
              /\ decodes[k].statusCode = raised[2].statusCode

\* an image of 100 x 8193: thrown in the try block, thrown again by the catch block
C37_Witness ==
    /\ \E k \in OverDimension : decodes[k].width = 100 /\ decodes[k].height = 8193
    /\ Len(raised) >= 2
    /\ raised[1] = DimensionError
    /\ raised[2].errorType = "ImageTooLarge" /\ raised[2].statusCode = 413

====
